---- MODULE Spec2Model ----
(***************************************************************************)
(* SolverX: the three-stage pipeline of agent.py (solver, formatter,       *)
(* insights) and the two HTTP endpoints of backend.py that call it.        *)
(*                                                                         *)
(* Python values are tagged records:                                       *)
(*   None        [t |-> "null"]                                            *)
(*   str         [t |-> "str",  s |-> <<chunk, ...>>]   (text as chunks)   *)
(*   int         [t |-> "num",  n |-> 3]                                   *)
(*   list        [t |-> "list", items |-> <<v, ...>>]                      *)
(*   dict        [t |-> "dict", d |-> [key |-> v, ...]]                    *)
(* A text is a sequence of chunks; a chunk is an atom of the text (a word, *)
(* a fence, a bracket, one base64 character).                              *)
(* A call either returns or raises: [raised |-> FALSE, v |-> value] or     *)
(* [raised |-> TRUE, v |-> the exception].                                 *)
(***************************************************************************)
EXTENDS Integers, Sequences, FiniteSets, TLC

VARIABLES
    pc,                 \* position of the request in the chain
    entry,              \* "text" | "image" | "direct": who called solve_problem
    problem_text,       \* solve_problem's argument problem_text
    image_base64,       \* solve_problem's argument image_base64
    user_content,       \* the content list of the solver's HumanMessage
    raw_solution,       \* _solve_with_agent's return value
    formatted_solution, \* _format_solution's return value
    profile,            \* load_student_profile's return value
    model_reply,        \* what insights_model.invoke did in this run
    insights,           \* outcome of _generate_insights: Ret(v) or Raise(e)
    result,             \* solve_problem's return value
    response,           \* the HTTP response
    profile_file,       \* profile.json on disk
    calls               \* the remote calls, file reads and stages, in the
                        \* order they started, each with whether it returned

vars == <<pc, entry, problem_text, image_base64, user_content, raw_solution,
          formatted_solution, profile, model_reply, insights, result,
          response, profile_file, calls>>

-----------------------------------------------------------------------------
(* Bounds of the model. *)

\* longest uploaded image, in bytes
MaxImageLen == 1
\* longest arbitrary (unstructured) model reply, in chunks
MaxJunkLen == 2
\* most items in a JSON array the insights model replies with
MaxItems == 4

-----------------------------------------------------------------------------
(* Python values. *)

PyNone == [t |-> "null"]
PyStr(chunks) == [t |-> "str", s |-> chunks]
PyNum(n) == [t |-> "num", n |-> n]
PyList(items) == [t |-> "list", items |-> items]
PyDict(d) == [t |-> "dict", d |-> d]
EmptyDict == PyDict(<<>>)
EmptyList == PyList(<<>>)

Ret(v) == [raised |-> FALSE, v |-> v]
Raise(e) == [raised |-> TRUE, v |-> [t |-> "exception", name |-> e]]

\* bool(v): None, "", 0, [] and {} are false.
Truthy(v) ==
    CASE v.t = "null" -> FALSE
      [] v.t = "str"  -> Len(v.s) > 0
      [] v.t = "num"  -> v.n # 0
      [] v.t = "list" -> Len(v.items) > 0
      [] v.t = "dict" -> DOMAIN v.d # {}

\* str(v) inside an f-string: None renders as the word None.
Format(v) ==
    CASE v.t = "null" -> <<"None">>
      [] v.t = "str"  -> v.s
      [] OTHER        -> <<"<repr>">>

\* v.get(key, default): only a dict has the method.
DictGet(v, key, default) ==
    IF v.t # "dict" THEN Raise("AttributeError")
    ELSE IF key \in DOMAIN v.d THEN Ret(v.d[key])
    ELSE Ret(default)

\* v[:3]: a list or a str is cut; a dict, a number and None cannot be sliced.
SliceThree(v) ==
    CASE v.t = "list" -> Ret(PyList(SubSeq(v.items, 1, IF Len(v.items) < 3 THEN Len(v.items) ELSE 3)))
      [] v.t = "str"  -> Ret(PyStr(SubSeq(v.s, 1, IF Len(v.s) < 3 THEN Len(v.s) ELSE 3)))
      [] OTHER        -> Raise("TypeError")

\* profile.get(k1, {}).get(k2, default)
GetTwo(p, k1, k2, default) ==
    LET a == DictGet(p, k1, EmptyDict)
    IN  IF a.raised THEN a ELSE DictGet(a.v, k2, default)

\* profile.get(k1, {}).get(k2, {}).get(k3, default)
GetThree(p, k1, k2, k3, default) ==
    LET a == GetTwo(p, k1, k2, EmptyDict)
    IN  IF a.raised THEN a ELSE DictGet(a.v, k3, default)

-----------------------------------------------------------------------------
(* Text: str.strip, str.startswith, str.split and json.loads on chunks.    *)

\* the chunk standing for a run of three backquotes
Fence == "<fence>"
JsonLabel == "json"
Whitespace == {" ", "\n"}

\* the chunks that are the text of one JSON object, and the object each denotes
ObjectChunks == {"{A}", "{B}", "{C}", "{}"}
ObjectOf(chunk) ==
    CASE chunk = "{A}" -> PyDict([title |-> PyStr(<<"Use energy">>),
                                  content |-> PyStr(<<"Energy is conserved here.">>),
                                  type |-> PyStr(<<"concept">>)])
      [] chunk = "{B}" -> PyDict([title |-> PyStr(<<"Mind the sign">>),
                                  content |-> PyStr(<<"g points down.">>),
                                  type |-> PyStr(<<"mistake">>)])
      [] chunk = "{C}" -> PyDict([title |-> PyStr(<<"No body">>)])
      [] chunk = "{}"  -> EmptyDict

\* the chunks that are the text of a JSON scalar
ScalarChunks == {"7", "null", "\"s\""}
ScalarOf(chunk) ==
    CASE chunk = "7"     -> PyNum(7)
      [] chunk = "null"  -> PyNone
      [] chunk = "\"s\"" -> PyStr(<<"s">>)

RECURSIVE LStrip(_)
LStrip(s) == IF s # <<>> /\ Head(s) \in Whitespace THEN LStrip(Tail(s)) ELSE s

RECURSIVE RStrip(_)
RStrip(s) ==
    IF s # <<>> /\ s[Len(s)] \in Whitespace THEN RStrip(SubSeq(s, 1, Len(s) - 1)) ELSE s

\* s.strip()
Strip(s) == RStrip(LStrip(s))

\* s.startswith(chunk)
StartsWith(s, chunk) == s # <<>> /\ Head(s) = chunk

\* s.split(sep): the pieces between the occurrences of sep
RECURSIVE SplitFrom(_, _, _, _)
SplitFrom(s, sep, i, piece) ==
    IF i > Len(s) THEN <<piece>>
    ELSE IF s[i] = sep THEN <<piece>> \o SplitFrom(s, sep, i + 1, <<>>)
    ELSE SplitFrom(s, sep, i + 1, Append(piece, s[i]))

Split(s, sep) == SplitFrom(s, sep, 1, <<>>)

\* first index >= i that holds no whitespace (Len(s) + 1 when none)
RECURSIVE SkipWs(_, _)
SkipWs(s, i) == IF i <= Len(s) /\ s[i] \in Whitespace THEN SkipWs(s, i + 1) ELSE i

ParseFail == [ok |-> FALSE, v |-> PyNone, next |-> 0]

\* the JSON decoder: one value starting at s[i], arrays by recursive descent
RECURSIVE ParseValue(_, _), ParseItems(_, _, _)
ParseValue(s, i) ==
    LET j == SkipWs(s, i)
    IN  IF j > Len(s) THEN ParseFail
        ELSE IF s[j] \in ObjectChunks THEN [ok |-> TRUE, v |-> ObjectOf(s[j]), next |-> j + 1]
        ELSE IF s[j] \in ScalarChunks THEN [ok |-> TRUE, v |-> ScalarOf(s[j]), next |-> j + 1]
        ELSE IF s[j] = "["
             THEN LET k == SkipWs(s, j + 1)
                  IN  IF k <= Len(s) /\ s[k] = "]"
                      THEN [ok |-> TRUE, v |-> EmptyList, next |-> k + 1]
                      ELSE ParseItems(s, k, <<>>)
        ELSE ParseFail

\* the items of an array after "[" or ",": value, then "," or "]"
ParseItems(s, i, acc) ==
    LET item == ParseValue(s, i)
    IN  IF ~item.ok THEN ParseFail
        ELSE LET k == SkipWs(s, item.next)
             IN  IF k > Len(s) THEN ParseFail
                 ELSE IF s[k] = "," THEN ParseItems(s, k + 1, Append(acc, item.v))
                 ELSE IF s[k] = "]"
                      THEN [ok |-> TRUE, v |-> PyList(Append(acc, item.v)), next |-> k + 1]
                 ELSE ParseFail

\* json.loads(s): one value, then nothing but whitespace
JsonLoads(s) ==
    LET r == ParseValue(s, 1)
    IN  IF r.ok /\ SkipWs(s, r.next) > Len(s) THEN Ret(r.v) ELSE Raise("JSONDecodeError")

-----------------------------------------------------------------------------
(* base64.b64encode on a sequence of bytes, one chunk per character.       *)

B64Alphabet ==
    <<"A","B","C","D","E","F","G","H","I","J","K","L","M","N","O","P",
      "Q","R","S","T","U","V","W","X","Y","Z","a","b","c","d","e","f",
      "g","h","i","j","k","l","m","n","o","p","q","r","s","t","u","v",
      "w","x","y","z","0","1","2","3","4","5","6","7","8","9","+","/">>

B64Char(sextet) == B64Alphabet[sextet + 1]

RECURSIVE B64Encode(_)
B64Encode(bytes) ==
    IF Len(bytes) = 0 THEN <<>>
    ELSE IF Len(bytes) = 1
         THEN LET n == bytes[1] * 16
              IN  <<B64Char(n \div 64), B64Char(n % 64), "=", "=">>
    ELSE IF Len(bytes) = 2
         THEN LET n == (bytes[1] * 256 + bytes[2]) * 4
              IN  <<B64Char(n \div 4096), B64Char((n \div 64) % 64), B64Char(n % 64), "=">>
    ELSE LET n == bytes[1] * 65536 + bytes[2] * 256 + bytes[3]
         IN  <<B64Char(n \div 262144), B64Char((n \div 4096) % 64),
               B64Char((n \div 64) % 64), B64Char(n % 64)>>
             \o B64Encode(SubSeq(bytes, 4, Len(bytes)))

-----------------------------------------------------------------------------
(* agent.py: the profile summary.                                          *)

\* the first of the outcomes that raised, in evaluation order
RECURSIVE FirstRaised(_)
FirstRaised(outcomes) ==
    IF outcomes = <<>> THEN Ret(PyNone)
    ELSE IF Head(outcomes).raised THEN Head(outcomes)
    ELSE FirstRaised(Tail(outcomes))

get_relevant_profile_data(p) ==
    LET name      == GetTwo(p, "basic_info", "name", PyStr(<<"Student">>))
        weak      == GetTwo(p, "performance_analytics", "weak_topics_priority_list", EmptyList)
        strong    == GetTwo(p, "performance_analytics", "strong_topics_list", EmptyList)
        cognitive == GetTwo(p, "psychometric_profile", "cognitive_abilities", EmptyDict)
        style     == GetTwo(p, "psychometric_profile", "learning_style", EmptyDict)
        physics   == GetThree(p, "subject_performance", "physics", "overall_score", PyNum(0))
        chemistry == GetThree(p, "subject_performance", "chemistry", "overall_score", PyNum(0))
        maths     == GetThree(p, "subject_performance", "mathematics", "overall_score", PyNum(0))
        recs      == DictGet(p, "recommendations", EmptyDict)
        attempts  == GetTwo(p, "question_history", "recent_attempts", EmptyList)
        recent    == IF attempts.raised THEN attempts ELSE SliceThree(attempts.v)
        bad       == FirstRaised(<<name, weak, strong, cognitive, style, physics,
                                   chemistry, maths, recs, recent>>)
    IN  IF bad.raised THEN bad
        ELSE Ret([name |-> name.v,
                  weak_topics |-> weak.v,
                  strong_topics |-> strong.v,
                  cognitive_abilities |-> cognitive.v,
                  learning_style |-> style.v,
                  subject_performance |-> [physics |-> physics.v,
                                           chemistry |-> chemistry.v,
                                           mathematics |-> maths.v],
                  recommendations |-> recs.v,
                  recent_attempts |-> recent.v])

-----------------------------------------------------------------------------
(* agent.py: the insights stage.                                           *)

\* the list returned when the profile is empty
DefaultInsights ==
    PyList(<<
        PyDict([title |-> PyStr(<<"Key Concept">>),
                content |-> PyStr(<<"Review the core concepts used in this solution.">>),
                type |-> PyStr(<<"concept">>)]),
        PyDict([title |-> PyStr(<<"Practice More">>),
                content |-> PyStr(<<"Try similar problems to reinforce your understanding.">>),
                type |-> PyStr(<<"practice">>)]),
        PyDict([title |-> PyStr(<<"Check Your Steps">>),
                content |-> PyStr(<<"Always verify your intermediate calculations.">>),
                type |-> PyStr(<<"tip">>)]),
        PyDict([title |-> PyStr(<<"Common Pitfall">>),
                content |-> PyStr(<<"Watch out for sign errors and unit conversions.">>),
                type |-> PyStr(<<"mistake">>)])>>)

\* the list returned from the except branch (the same four items, written again)
FallbackInsights ==
    PyList(<<
        PyDict([title |-> PyStr(<<"Key Concept">>),
                content |-> PyStr(<<"Review the core concepts used in this solution.">>),
                type |-> PyStr(<<"concept">>)]),
        PyDict([title |-> PyStr(<<"Practice More">>),
                content |-> PyStr(<<"Try similar problems to reinforce your understanding.">>),
                type |-> PyStr(<<"practice">>)]),
        PyDict([title |-> PyStr(<<"Check Your Steps">>),
                content |-> PyStr(<<"Always verify your intermediate calculations.">>),
                type |-> PyStr(<<"tip">>)]),
        PyDict([title |-> PyStr(<<"Common Pitfall">>),
                content |-> PyStr(<<"Watch out for sign errors and unit conversions.">>),
                type |-> PyStr(<<"mistake">>)])>>)

\* the f-string prompt: the values it embeds, in the order it evaluates them
InsightsPrompt(text, solution, relevant) ==
    LET weak   == SliceThree(relevant.weak_topics)
        strong == SliceThree(relevant.strong_topics)
        style  == DictGet(relevant.learning_style, "dominant_style", PyStr(<<"visual">>))
        bad    == FirstRaised(<<weak, strong, style>>)
    IN  IF bad.raised THEN bad
        ELSE Ret([problem |-> IF Truthy(text) THEN Format(text) ELSE <<"[Problem from image]">>,
                  solution |-> Format(solution),
                  name |-> relevant.name,
                  physics |-> relevant.subject_performance.physics,
                  chemistry |-> relevant.subject_performance.chemistry,
                  mathematics |-> relevant.subject_performance.mathematics,
                  weak_topics |-> weak.v,
                  strong_topics |-> strong.v,
                  learning_style |-> style.v])

\* a variant of the try block's body that takes the fenced block without
\* first testing for a leading fence
ParseInsightsReply_AlwaysSplit(content) ==
    IF content.t # "str" THEN Raise("AttributeError")
    ELSE LET response_text == Strip(content.s)
             pieces        == Split(response_text, Fence)
         IN  IF Len(pieces) < 2 THEN Raise("IndexError")
             ELSE JsonLoads(IF StartsWith(pieces[2], JsonLabel)
                            THEN Tail(pieces[2]) ELSE pieces[2])

\* the body of the try block once insights_model.invoke has returned content
ParseInsightsReply(content) ==
    IF content.t # "str" THEN Raise("AttributeError")
    ELSE LET response_text == Strip(content.s)
             fenced        == IF StartsWith(response_text, Fence)
                              THEN Split(response_text, Fence)[2]
                              ELSE response_text
             unlabelled    == IF StartsWith(response_text, Fence) /\ StartsWith(fenced, JsonLabel)
                              THEN Tail(fenced)
                              ELSE fenced
         IN  JsonLoads(unlabelled)

\* a variant without the except clause
InsightsTry_NoExcept(behaviour) ==
    IF behaviour.kind = "raise" THEN Raise(behaviour.error)
    ELSE ParseInsightsReply(behaviour.content)

\* try: ... except (json.JSONDecodeError, Exception): the fallback list
InsightsTry(behaviour) ==
    LET parsed == IF behaviour.kind = "raise" THEN Raise(behaviour.error)
                  ELSE ParseInsightsReply(behaviour.content)
    IN  IF parsed.raised THEN Ret(FallbackInsights) ELSE parsed

\* a variant without the test for an empty profile
_generate_insights_NoEmptyCheck(text, solution, p, behaviour) ==
    LET relevant == get_relevant_profile_data(p)
        prompt   == IF relevant.raised THEN relevant
                    ELSE InsightsPrompt(text, solution, relevant.v)
    IN  IF prompt.raised THEN [outcome |-> prompt, invoked |-> FALSE]
        ELSE [outcome |-> InsightsTry(behaviour), invoked |-> TRUE]

\* _generate_insights: its outcome, and whether insights_model was invoked
_generate_insights(text, solution, p, behaviour) ==
    IF ~Truthy(p) THEN [outcome |-> Ret(DefaultInsights), invoked |-> FALSE]
    ELSE LET relevant == get_relevant_profile_data(p)
             prompt   == IF relevant.raised THEN relevant
                         ELSE InsightsPrompt(text, solution, relevant.v)
         IN  IF prompt.raised THEN [outcome |-> prompt, invoked |-> FALSE]
             ELSE [outcome |-> InsightsTry(behaviour), invoked |-> TRUE]

-----------------------------------------------------------------------------
(* agent.py: the solver's user turn.                                       *)

DefaultCaption ==
    <<"Solve this problem shown in the image. Provide a complete step-by-step solution.">>

\* a variant that falls back to the caption in both branches
SolverContent_CaptionInBothBranches(text, image) ==
    IF Truthy(image)
    THEN <<[type |-> "image_url",
            image_url |-> <<"data:image/jpeg;base64,">> \o Format(image)],
           [type |-> "text",
            text |-> IF Truthy(text) THEN text.s ELSE DefaultCaption]>>
    ELSE <<[type |-> "text",
            text |-> IF Truthy(text)
                     THEN <<"Solve this JEE problem:\n\n">> \o Format(text)
                     ELSE DefaultCaption]>>

\* a variant that tests the text against None instead of for truth
SolverContent_CaptionOnlyForNone(text, image) ==
    IF Truthy(image)
    THEN <<[type |-> "image_url",
            image_url |-> <<"data:image/jpeg;base64,">> \o Format(image)],
           [type |-> "text",
            text |-> IF text # PyNone THEN text.s ELSE DefaultCaption]>>
    ELSE <<[type |-> "text",
            text |-> <<"Solve this JEE problem:\n\n">> \o Format(text)]>>

\* the content list of the HumanMessage _solve_with_agent sends
SolverContent(text, image) ==
    IF Truthy(image)
    THEN <<[type |-> "image_url",
            image_url |-> <<"data:image/jpeg;base64,">> \o Format(image)],
           [type |-> "text",
            text |-> IF Truthy(text) THEN text.s ELSE DefaultCaption]>>
    ELSE <<[type |-> "text",
            text |-> <<"Solve this JEE problem:\n\n">> \o Format(text)]>>

-----------------------------------------------------------------------------
(* backend.py: the response model.                                         *)

\* SolutionResponse(**result): the declared fields are kept, any other key
\* of the mapping is ignored
SolutionResponse(mapping) ==
    [raw_solution |-> mapping.raw_solution,
     formatted_solution |-> mapping.formatted_solution]

-----------------------------------------------------------------------------
(* The inputs: what callers send, what the models reply, what the profile  *)
(* file holds.                                                             *)

RECURSIVE SeqsUpTo(_, _)
SeqsUpTo(S, n) ==
    IF n = 0 THEN {<<>>}
    ELSE LET shorter == SeqsUpTo(S, n - 1)
         IN  shorter \cup {Append(q, x) : q \in {r \in shorter : Len(r) = n - 1}, x \in S}

\* problem texts a caller sends: empty or not
Texts == {PyStr(<<>>), PyStr(<<"A particle is projected at 20 m/s.">>)}
OptionalTexts == {PyNone} \cup Texts

\* uploaded files: byte strings, the empty file included
ImageBytes == {137}
Uploads == SeqsUpTo(ImageBytes, MaxImageLen)
OptionalImages == {PyNone} \cup {PyStr(B64Encode(b)) : b \in Uploads}

\* replies of the solver and of the formatter
Solutions == {PyStr(<<"h = 5 m">>), PyStr(<<"H_max = u^2 sin^2(theta) / 2g = 5 m">>)}
Formatted == {PyStr(<<"## Solution", "$h = 5$ m">>)}

\* what profile.json parses to, when it parses
FullProfile ==
    PyDict([basic_info |-> PyDict([name |-> PyStr(<<"Asha">>)]),
            performance_analytics |->
                PyDict([weak_topics_priority_list |->
                            PyList(<<PyStr(<<"Optics">>), PyStr(<<"Rotation">>),
                                     PyStr(<<"Waves">>), PyStr(<<"Thermo">>)>>),
                        strong_topics_list |-> PyList(<<PyStr(<<"Algebra">>)>>)]),
            psychometric_profile |->
                PyDict([learning_style |-> PyDict([dominant_style |-> PyStr(<<"kinesthetic">>)])]),
            subject_performance |->
                PyDict([physics |-> PyDict([overall_score |-> PyNum(72)])]),
            question_history |->
                PyDict([recent_attempts |-> PyList(<<PyNum(1), PyNum(2), PyNum(3), PyNum(4)>>)])])

\* mappings whose fields have the expected shapes, or are absent
WellShapedProfiles ==
    {FullProfile,
     PyDict([basic_info |-> PyDict([name |-> PyStr(<<"Asha">>)])]),
     PyDict([recommendations |-> PyList(<<PyStr(<<"Revise optics">>)>>)])}

\* mappings with a field of another JSON shape
MisshapenProfiles ==
    {PyDict([basic_info |-> PyStr(<<"Asha">>)]),
     PyDict([basic_info |-> PyNone]),
     PyDict([psychometric_profile |-> PyDict([learning_style |-> PyStr(<<"visual">>)])]),
     PyDict([performance_analytics |->
                 PyDict([weak_topics_priority_list |-> PyDict([Optics |-> PyNum(1)])])]),
     PyDict([subject_performance |-> PyDict([physics |-> PyNum(72)])]),
     PyDict([question_history |-> PyDict([recent_attempts |-> PyNum(5)])])}

ProfileMappings == {EmptyDict} \cup WellShapedProfiles \cup MisshapenProfiles

\* a JSON document need not be a mapping
ProfileDocuments == ProfileMappings \cup {EmptyList, PyList(<<PyNum(1)>>)}

\* the states of profile.json on disk
ProfileFiles ==
    {[state |-> "missing"], [state |-> "unreadable"], [state |-> "malformed"]}
    \cup {[state |-> "json", document |-> d] : d \in ProfileDocuments}

\* json.dumps of a list of insight objects, as the model writes it
RECURSIVE JoinItems(_)
JoinItems(items) ==
    IF items = <<>> THEN <<>>
    ELSE IF Len(items) = 1 THEN items
    ELSE <<Head(items), ",", " ">> \o JoinItems(Tail(items))

ArrayText(items) == <<"[">> \o JoinItems(items) \o <<"]">>

ItemChunks == {"{A}", "{B}"}
ArrayTexts == {ArrayText(items) : items \in SeqsUpTo(ItemChunks, MaxItems)}

\* an array as models wrap it: bare, padded, fenced with or without the
\* label, or after a sentence
WrappedArrays ==
    UNION {{a,
            <<"\n">> \o a \o <<" ">>,
            <<Fence, JsonLabel, "\n">> \o a \o <<"\n", Fence>>,
            <<Fence, "\n">> \o a \o <<"\n", Fence, "\n">>,
            <<"x", " ">> \o a} : a \in ArrayTexts}

\* any short text at all
JunkChunks == {Fence, JsonLabel, " ", "[", "]", "{A}", "x"}
JunkTexts == SeqsUpTo(JunkChunks, MaxJunkLen)

Replies == WrappedArrays \cup JunkTexts

\* what insights_model.invoke does: raises, or returns a message whose
\* content is a text (or, for a multi-part message, a list)
ModelBehaviours ==
    {[kind |-> "raise", error |-> "ConnectionError"],
     [kind |-> "reply", content |-> EmptyList]}
    \cup {[kind |-> "reply", content |-> PyStr(r)] : r \in Replies}

NotCalled == [kind |-> "not called"]
Unset == [t |-> "unset"]

-----------------------------------------------------------------------------
(* agent.py: the profile loader.                                           *)

\* a variant whose except clause catches every exception
load_student_profile_CatchAll(file) ==
    IF file.state = "json" THEN Ret(file.document) ELSE Ret(EmptyDict)

\* only FileNotFoundError is caught
load_student_profile(file) ==
    CASE file.state = "missing"    -> Ret(EmptyDict)
      [] file.state = "unreadable" -> Raise("PermissionError")
      [] file.state = "malformed"  -> Raise("JSONDecodeError")
      [] file.state = "json"       -> Ret(file.document)

-----------------------------------------------------------------------------
(* The request: one chain of blocking calls.                               *)

Init ==
    /\ pc = "idle"
    /\ entry = "none"
    /\ problem_text = Unset
    /\ image_base64 = Unset
    /\ user_content = <<>>
    /\ raw_solution = Unset
    /\ formatted_solution = Unset
    /\ profile = Unset
    /\ model_reply = NotCalled
    /\ insights = Unset
    /\ result = Unset
    /\ response = Unset
    /\ profile_file \in ProfileFiles
    /\ calls = <<>>

Called(name, returned) == [call |-> name, ok |-> returned]

\* POST /solve/text: problem_text is a required string; image_base64 keeps
\* its default
solve_text_problem ==
    /\ pc = "idle"
    /\ \E text \in Texts :
        /\ problem_text' = text
        /\ image_base64' = PyNone
    /\ entry' = "text"
    /\ pc' = "solve"
    /\ UNCHANGED <<user_content, raw_solution, formatted_solution, profile, model_reply,
                   insights, result, response, profile_file, calls>>

\* POST /solve/image: the upload is read and encoded, the text is optional
solve_image_problem ==
    /\ pc = "idle"
    /\ \E image_bytes \in Uploads, additional_text \in OptionalTexts :
        /\ problem_text' = additional_text
        /\ image_base64' = PyStr(B64Encode(image_bytes))
    /\ entry' = "image"
    /\ pc' = "solve"
    /\ UNCHANGED <<user_content, raw_solution, formatted_solution, profile, model_reply,
                   insights, result, response, profile_file, calls>>

\* any other caller of solve_problem, both parameters defaulting to None
solve_problem ==
    /\ pc = "idle"
    /\ \E text \in OptionalTexts, image \in OptionalImages :
        /\ problem_text' = text
        /\ image_base64' = image
    /\ entry' = "direct"
    /\ pc' = "solve"
    /\ UNCHANGED <<user_content, raw_solution, formatted_solution, profile, model_reply,
                   insights, result, response, profile_file, calls>>

\* an exception leaves solve_problem
Propagate(exception) ==
    /\ result' = exception
    /\ pc' = "returned"

\* a variant that swallows the solver's failure and carries on with None
_solve_with_agent_Swallow ==
    /\ pc = "solve"
    /\ user_content' = SolverContent(problem_text, image_base64)
    /\ \/ \E content \in Solutions :
            /\ raw_solution' = content
            /\ calls' = Append(calls, [call |-> "solver_model", ok |-> TRUE])
       \/ /\ raw_solution' = PyNone
          /\ calls' = Append(calls, [call |-> "solver_model", ok |-> FALSE])
    /\ pc' = "format"
    /\ UNCHANGED <<entry, problem_text, image_base64, formatted_solution, profile,
                   model_reply, insights, result, response, profile_file>>

\* Step 1: the user turn is built and the solver model invoked; its failure
\* is not caught
_solve_with_agent ==
    /\ pc = "solve"
    /\ user_content' = SolverContent(problem_text, image_base64)
    /\ \/ \E content \in Solutions :
            /\ raw_solution' = content
            /\ calls' = Append(calls, Called("solver_model", TRUE))
            /\ pc' = "format"
            /\ UNCHANGED result
       \/ /\ calls' = Append(calls, Called("solver_model", FALSE))
          /\ Propagate(Raise("SolverError"))
          /\ UNCHANGED raw_solution
    /\ UNCHANGED <<entry, problem_text, image_base64, formatted_solution, profile,
                   model_reply, insights, response, profile_file>>

\* Step 2: the formatter model is invoked; its failure is not caught
_format_solution ==
    /\ pc = "format"
    /\ \/ \E content \in Formatted :
            /\ formatted_solution' = content
            /\ calls' = Append(calls, Called("formatter_model", TRUE))
            /\ pc' = "profile"
            /\ UNCHANGED result
       \/ /\ calls' = Append(calls, Called("formatter_model", FALSE))
          /\ Propagate(Raise("FormatterError"))
          /\ UNCHANGED formatted_solution
    /\ UNCHANGED <<entry, problem_text, image_base64, user_content, raw_solution,
                   profile, model_reply, insights, response, profile_file>>

\* Step 3, first line: profile.json is read
LoadProfile ==
    /\ pc = "profile"
    /\ LET loaded == load_student_profile(profile_file)
       IN  /\ calls' = Append(calls, Called("profile_file", ~loaded.raised))
           /\ IF loaded.raised
              THEN Propagate(loaded) /\ UNCHANGED profile
              ELSE profile' = loaded.v /\ pc' = "insights" /\ UNCHANGED result
    /\ UNCHANGED <<entry, problem_text, image_base64, user_content, raw_solution,
                   formatted_solution, model_reply, insights, response, profile_file>>

\* the mapping solve_problem returns
ResultEnvelope(raw, formatted, ins) ==
    [raw_solution |-> raw, formatted_solution |-> formatted, insights |-> ins]

\* Step 3, second line, and the return statement
GenerateInsights ==
    /\ pc = "insights"
    /\ \E behaviour \in ModelBehaviours :
        LET stage == _generate_insights(problem_text, raw_solution, profile, behaviour)
        IN  /\ insights' = stage.outcome
            /\ model_reply' = IF stage.invoked THEN behaviour ELSE NotCalled
            /\ calls' = IF stage.invoked
                        THEN calls \o <<Called("insights_stage", TRUE),
                                        Called("insights_model", behaviour.kind = "reply")>>
                        ELSE Append(calls, Called("insights_stage", ~stage.outcome.raised))
            /\ result' = IF stage.outcome.raised THEN stage.outcome
                         ELSE Ret(ResultEnvelope(raw_solution, formatted_solution,
                                                 stage.outcome.v))
    /\ pc' = "returned"
    /\ UNCHANGED <<entry, problem_text, image_base64, user_content, raw_solution,
                   formatted_solution, profile, response, profile_file>>

\* the endpoint's return statement, or the framework's answer to an
\* exception that reached it
Respond ==
    /\ pc = "returned"
    /\ entry \in {"text", "image"}
    /\ response' = IF result.raised
                   THEN [status |-> 500]
                   ELSE [status |-> 200, body |-> SolutionResponse(result.v)]
    /\ pc' = "responded"
    /\ UNCHANGED <<entry, problem_text, image_base64, user_content, raw_solution,
                   formatted_solution, profile, model_reply, insights, result,
                   profile_file, calls>>

Next ==
    \/ solve_text_problem
    \/ solve_image_problem
    \/ solve_problem
    \/ _solve_with_agent
    \/ _format_solution
    \/ LoadProfile
    \/ GenerateInsights
    \/ Respond

Spec == Init /\ [][Next]_vars

-----------------------------------------------------------------------------
(* Properties.                                                             *)

InsightsRan == insights # Unset
ModelInvoked == model_reply # NotCalled
Finished == pc \in {"returned", "responded"}
SolverRan == Len(calls) >= 1

\* C1: the insights stage never raises, whatever the profile mapping holds
\* and whatever the insights model does.
C1_InsightsNeverRaises ==
    (InsightsRan /\ profile.t = "dict") => ~insights.raised

\* C2: every value the insights stage returns is a sequence of exactly four
\* items, for every model reply.
C2_AlwaysFourItems ==
    (InsightsRan /\ ~insights.raised) =>
        (insights.v.t = "list" /\ Len(insights.v.items) = 4)

\* C3: when solve_problem succeeds, the body of the HTTP response is its
\* result envelope: raw_solution, formatted_solution and the insights.
C3_ResponseIsEnvelope ==
    (pc = "responded" /\ ~result.raised) =>
        /\ response.status = 200
        /\ DOMAIN response.body = {"raw_solution", "formatted_solution", "insights"}
        /\ response.body = result.v

\* C4, as claimed: with neither a problem text nor an image, the text of
\* the solver's user turn is the default caption.
C4_CaptionWhenNothingSupplied ==
    (SolverRan /\ problem_text = PyNone /\ image_base64 = PyNone) =>
        user_content[Len(user_content)].text = DefaultCaption

\* C4, amended: with neither a problem text nor an image, the user turn is
\* one text part, the header "Solve this JEE problem:" followed by the
\* rendering of the missing text (the word None); the default caption is
\* sent only together with an image.
C4_HeaderWhenNothingSupplied ==
    /\ (SolverRan /\ problem_text = PyNone /\ image_base64 = PyNone) =>
            user_content = <<[type |-> "text",
                              text |-> <<"Solve this JEE problem:\n\n", "None">>]>>
    /\ (SolverRan /\ user_content[Len(user_content)].text = DefaultCaption) =>
            (Truthy(image_base64) /\ Len(user_content) = 2)

C4_Witness ==
    /\ Finished
    /\ problem_text = PyNone
    /\ image_base64 = PyNone
    /\ user_content # <<>>

\* the reply after fence-stripping: of a reply that opens with a fence, the
\* block up to the next fence, less a leading json label
FirstFence(s) ==
    IF \E i \in 1..Len(s) : s[i] = Fence
    THEN CHOOSE i \in 1..Len(s) : s[i] = Fence /\ \A j \in 1..(i - 1) : s[j] # Fence
    ELSE Len(s) + 1

FenceStripped(text) ==
    LET t == Strip(text)
    IN  IF t = <<>> \/ t[1] # Fence THEN t
        ELSE LET rest  == Tail(t)
                 block == SubSeq(rest, 1, FirstFence(rest) - 1)
             IN  IF block # <<>> /\ block[1] = JsonLabel THEN Tail(block) ELSE block

ReplyUnusable ==
    \/ model_reply.kind = "raise"
    \/ /\ model_reply.kind = "reply"
       /\ \/ model_reply.content.t # "str"
          \/ JsonLoads(FenceStripped(model_reply.content.s)).raised

\* C5: once the prompt is built for a non-empty profile, a failed model call
\* or a reply that is not valid JSON after fence-stripping yields exactly
\* the default four-item set, and no error reaches the caller.
C5_DefaultOnUnusableReply ==
    (InsightsRan /\ ModelInvoked /\ ReplyUnusable) =>
        /\ insights = Ret(DefaultInsights)
        /\ ~result.raised
        /\ result.v.insights = DefaultInsights

C5_Witness ==
    /\ InsightsRan
    /\ Truthy(profile)
    /\ model_reply.kind = "reply"
    /\ model_reply.content.t = "str"
    /\ StartsWith(model_reply.content.s, Fence)
    /\ Len(model_reply.content.s) >= 2
    /\ ReplyUnusable
    /\ insights = Ret(DefaultInsights)

InsightsModelCalled == \E i \in DOMAIN calls : calls[i].call = "insights_model"

\* C6: with an empty profile the insights stage returns the default
\* four-item set and the insights model is never invoked.
C6_EmptyProfileSkipsModel ==
    (InsightsRan /\ profile = EmptyDict) =>
        /\ insights = Ret(DefaultInsights)
        /\ Len(insights.v.items) = 4
        /\ ~ModelInvoked
        /\ ~InsightsModelCalled

C6_Witness ==
    /\ Finished
    /\ InsightsRan
    /\ profile = EmptyDict
    /\ profile_file.state = "json"
    /\ Truthy(problem_text)

\* the texts of the arrays of exactly four objects with the keys title,
\* content and type
GoodItemChunks == {c \in ObjectChunks : DOMAIN ObjectOf(c).d = {"title", "content", "type"}}
FourGoodItems == {items \in SeqsUpTo(GoodItemChunks, 4) : Len(items) = 4}

\* C7: a reply that is a valid JSON array of exactly four objects with the
\* keys title, content and type is returned unmodified: the same items in
\* the same order.
C7_FourObjectsUnmodified ==
    (InsightsRan /\ ModelInvoked /\ model_reply.kind = "reply"
                 /\ model_reply.content.t = "str") =>
        \A items \in FourGoodItems :
            Strip(model_reply.content.s) = ArrayText(items) =>
                insights = Ret(PyList(<<ObjectOf(items[1]), ObjectOf(items[2]),
                                        ObjectOf(items[3]), ObjectOf(items[4])>>))

C7_Witness ==
    /\ InsightsRan
    /\ model_reply.kind = "reply"
    /\ model_reply.content = PyStr(<<"\n">> \o ArrayText(<<"{A}", "{B}", "{B}", "{A}">>) \o <<" ">>)
    /\ insights.v.items[2] = ObjectOf("{B}")
    /\ insights.v # DefaultInsights

StageOrder ==
    <<"solver_model", "formatter_model", "profile_file", "insights_stage", "insights_model">>

\* C8: the stages start in the order solver, formatter, profile load,
\* insights, each after the one before it has returned; when the solver
\* fails the call fails and nothing else is invoked in that run.
C8_StagesInOrder ==
    /\ Len(calls) <= Len(StageOrder)
    /\ \A i \in DOMAIN calls : calls[i].call = StageOrder[i]
    /\ \A i \in DOMAIN calls : (1 < i /\ i <= 4) => calls[i - 1].ok
    /\ (SolverRan /\ ~calls[1].ok) =>
            /\ Len(calls) = 1
            /\ Finished
            /\ result.raised
            /\ formatted_solution = Unset
            /\ profile = Unset
            /\ insights = Unset
            /\ ~ModelInvoked
            /\ (pc = "responded" => response = [status |-> 500])

C8_Witness ==
    /\ pc = "responded"
    /\ ~calls[1].ok
    /\ response = [status |-> 500]

\* C9: with an image and no (or an empty) problem text, the user turn is the
\* image part followed by a text part holding the default caption.
C9_ImageAloneGetsCaption ==
    (SolverRan /\ Truthy(image_base64) /\ ~Truthy(problem_text)) =>
        user_content = <<[type |-> "image_url",
                          image_url |-> <<"data:image/jpeg;base64,">> \o image_base64.s],
                         [type |-> "text", text |-> DefaultCaption]>>

C9_Witness ==
    /\ SolverRan
    /\ entry = "image"
    /\ Truthy(image_base64)
    /\ problem_text = PyStr(<<>>)
    /\ Len(user_content) = 2

ProfileRead == \E i \in DOMAIN calls : calls[i].call = "profile_file"

\* C10: the loader returns an empty mapping when profile.json does not
\* exist; any other failure to read or parse it propagates: solve_problem
\* raises and returns no mapping although the solver and the formatter have
\* completed, and the insights stage is never entered.
C10_ProfileFailurePropagates ==
    ProfileRead =>
        /\ profile_file.state = "missing" =>
                (calls[3].ok /\ profile = EmptyDict)
        /\ profile_file.state \in {"unreadable", "malformed"} =>
                /\ ~calls[3].ok
                /\ Finished
                /\ result.raised
                /\ calls[1].ok /\ raw_solution \in Solutions
                /\ calls[2].ok /\ formatted_solution \in Formatted
                /\ Len(calls) = 3
                /\ insights = Unset
                /\ ~ModelInvoked
                /\ (pc = "responded" => response = [status |-> 500])

C10_Witness ==
    /\ ProfileRead
    /\ profile_file.state = "malformed"
    /\ pc = "responded"
    /\ result.raised

====
